---------------------------- MODULE Spec2Model ----------------------------
(***************************************************************************)
(* Model of the save/link reconciliation code of longcut:                  *)
(*   - saveVideoAnalysisWithRetry and ensureUserVideoLink                   *)
(*     (lib/video-save-utils, src/unnamed/part_000),                        *)
(*   - the POST /api/verify-video-link handler                              *)
(*     (src/app/api/verify-video-link/route.ts),                            *)
(*   - the bulk repair statement                                            *)
(*     (src/supabase/migrations/20260122120000_fix_missing_user_videos.sql) *)
(* over a store with the tables profiles, video_analyses, user_videos and   *)
(* video_generations.  Every await of the code is one step, so that other   *)
(* requests and the profile creation interleave between the round trips.    *)
(***************************************************************************)
EXTENDS Integers, Sequences, FiniteSets

VARIABLES
    profiles,           \* table profiles: the set of user ids that have a row
    video_analyses,     \* table video_analyses: rows [id, youtube_id]
    user_videos,        \* table user_videos: rows [id, user_id, video_id, accessed_at]
    video_generations,  \* table video_generations: rows [user_id, youtube_id, created_at]
    save,               \* the running saveVideoAnalysisWithRetry invocation
    saveLog,            \* its remote calls and waits, in order
    link,               \* the ensureUserVideoLink invocations, one per caller
    linkedPairs,        \* the (user, youtube id) pairs an invocation returned linked = true for
    repair,             \* the last runs of the bulk repair statement
    req                 \* the requests to POST /api/verify-video-link, one per caller

store == <<profiles, video_analyses, user_videos, video_generations>>
vars == <<profiles, video_analyses, user_videos, video_generations, save, saveLog,
          link, linkedPairs, repair, req>>

-----------------------------------------------------------------------------
(* Bounds of the model. *)

MaxRetriesBound == 3    \* maxRetries is drawn from 0..MaxRetriesBound
MaxTime == 2            \* timestamps are drawn from 1..MaxTime
MaxGenerations == 2     \* video_generations holds at most MaxGenerations rows

(* Program constants. *)

DefaultMaxRetries == 3
DefaultRetryDelayMs == 500

-----------------------------------------------------------------------------
(* Values. *)

NULL == "null"
Users == {"u1", "u2"}
YoutubeIds == {"yA", "yB"}
Callers == {"c1", "c2"}
Times == 1..MaxTime

\* The surrogate id video_analyses gives the row of a youtube id.
InternalId(y) == IF y = "yA" THEN "vA" ELSE IF y = "yB" THEN "vB" ELSE "vC"

(* Error messages are sequences of words; String.prototype.includes is the *)
(* search for a contiguous run of words.                                   *)
Includes(msg, needle) ==
    \E i \in 1..(Len(msg) - Len(needle) + 1) :
        \A j \in 1..Len(needle) : msg[i + j - 1] = needle[j]

\* The store's message for a link whose user has no profiles row.
FkViolation ==
    <<"insert", "or", "update", "on", "table", "user_videos", "violates",
      "foreign", "key", "constraint", "user_videos_user_id_fkey">>
ProfileNotReady == <<"row", "missing", "in", "profiles">>
UniqueViolation ==
    <<"duplicate", "key", "value", "violates", "unique", "constraint">>
NetworkError == <<"fetch", "failed">>


-----------------------------------------------------------------------------
(* The store. *)

\* The user_videos rows of one (user, video) pair.
LinkRows(uv, u, v) == {r \in uv : r.user_id = u /\ r.video_id = v}

\* The video_analyses rows of one youtube id.
VideoRows(va, y) == {r \in va : r.youtube_id = y}

\* INSERT of one user_videos row.  The id column is generated and opaque: it
\* only tells the rows of a pair apart, so the rows of a pair are numbered.
InsertLink(uv, u, v, t) ==
    uv \cup {[id |-> Cardinality(LinkRows(uv, u, v)) + 1, user_id |-> u, video_id |-> v,
              accessed_at |-> t]}

\* Mutant of UpsertLink: a plain insert, with no conflict target.
UpsertLinkNoConflict(uv, u, v, t) == InsertLink(uv, u, v, t)

\* INSERT ... ON CONFLICT (user_id, video_id) DO UPDATE: the upsert of
\* supabase-js with onConflict 'user_id,video_id'.
UpsertLink(uv, u, v, t) ==
    IF LinkRows(uv, u, v) = {}
    THEN InsertLink(uv, u, v, t)
    ELSE {IF r \in LinkRows(uv, u, v) THEN [r EXCEPT !.accessed_at = t] ELSE r
          : r \in uv}

\* The foreign key user_videos.user_id -> profiles.id.
FkHolds(p, u) == u \in p

\* The remote procedure insert_video_analysis_server, atomic: the analysis row
\* is created once per youtube id and, for a user, the link is upserted; a user
\* without a profiles row violates the foreign key and nothing is written.
RpcError(p, u) == IF u # NULL /\ ~FkHolds(p, u) THEN FkViolation ELSE <<>>

RpcVideoAnalyses(va, y) ==
    IF VideoRows(va, y) = {}
    THEN va \cup {[id |-> InternalId(y), youtube_id |-> y]}
    ELSE va

RpcUserVideos(uv, u, y, t) ==
    IF u = NULL THEN uv ELSE UpsertLink(uv, u, InternalId(y), t)

-----------------------------------------------------------------------------
(* saveVideoAnalysisWithRetry *)

\* No bulk repair run since the store last changed.
NoRepair == [streak |-> 0, inserted |-> 0, total |-> 0]

NoOption == [given |-> FALSE, val |-> 0]
Option(n) == [given |-> TRUE, val |-> n]

\* const { maxRetries = 3, retryDelayMs = 500 } = options ?? {}
OptionOr(o, default) == IF o.given THEN o.val ELSE default

\* isRetryableError
IsRetryableError(errorMessage) ==
    \/ Includes(errorMessage, <<"foreign", "key">>)
    \/ Includes(errorMessage, <<"profiles">>)
    \/ Includes(errorMessage, <<"violates", "foreign", "key", "constraint">>)
    \/ Includes(errorMessage, <<"user_videos_user_id_fkey">>)

\* Mutant of RetryDelay: the exponential backoff of the doc comment.
RetryDelayExponential(retryDelayMs, attempt) == retryDelayMs * 2 ^ (attempt + 1)

\* Mutant of RetryDelay: a constant delay.
RetryDelayConstant(retryDelayMs, attempt) == retryDelayMs

\* retryDelayMs * (attempt + 1)
RetryDelay(retryDelayMs, attempt) == retryDelayMs * (attempt + 1)

\* Mutant of ShouldWait: a wait after the last permitted attempt too.
ShouldWaitAlways(errorMessage, attempt, maxRetries) == IsRetryableError(errorMessage)

\* if (isRetryableError && attempt < maxRetries - 1)
ShouldWait(errorMessage, attempt, maxRetries) ==
    IsRetryableError(errorMessage) /\ attempt < maxRetries - 1

\* Mutant of SuccessResult: the count of calls made instead of the attempt index.
SuccessResultCallCount(data, attempt) ==
    [success |-> TRUE, videoId |-> data, error |-> <<>>, retriedCount |-> attempt + 1]

SuccessResult(data, attempt) ==
    [success |-> TRUE, videoId |-> data, error |-> <<>>, retriedCount |-> attempt]

\* Mutant of FailureResult: the index of the last attempt as retriedCount.
FailureResultLastAttempt(maxRetries) ==
    [success |-> FALSE, videoId |-> NULL,
     error |-> <<"Max", "retries", "exceeded">>, retriedCount |-> maxRetries - 1]

FailureResult(maxRetries) ==
    [success |-> FALSE, videoId |-> NULL,
     error |-> <<"Max", "retries", "exceeded">>, retriedCount |-> maxRetries]

NoResult == [success |-> FALSE, videoId |-> NULL, error |-> <<>>, retriedCount |-> 0]

\* The failures a remote call can end with whatever the store holds.
Faults == {NetworkError, UniqueViolation, ProfileNotReady}

IdleSave ==
    [pc |-> "idle", userId |-> NULL, youtubeId |-> "yA", maxRetries |-> 0,
     retryDelayMs |-> 0, attempt |-> 0, delay |-> 0, result |-> NoResult]

SaveStart(u, y, optRetries, optDelay) ==
    /\ save.pc = "idle"
    /\ save' = [IdleSave EXCEPT !.pc = "loop", !.userId = u, !.youtubeId = y,
                    !.maxRetries = OptionOr(optRetries, DefaultMaxRetries),
                    !.retryDelayMs = OptionOr(optDelay, DefaultRetryDelayMs)]
    /\ UNCHANGED <<store, saveLog, link, linkedPairs, repair, req>>

\* One pass of the loop body: the remote call, then the return or the catch.
SaveAttempt(fault, t) ==
    /\ save.pc = "loop"
    /\ save.attempt < save.maxRetries
    /\ LET err == IF fault # <<>> THEN fault ELSE RpcError(profiles, save.userId)
       IN IF err = <<>>
          THEN /\ video_analyses' = RpcVideoAnalyses(video_analyses, save.youtubeId)
               /\ user_videos' = RpcUserVideos(user_videos, save.userId, save.youtubeId, t)
               /\ save' = [save EXCEPT !.pc = "done",
                              !.result = SuccessResult(InternalId(save.youtubeId), save.attempt)]
               /\ saveLog' = Append(saveLog, [type |-> "call", attempt |-> save.attempt,
                                              ok |-> TRUE, retryable |-> FALSE, ms |-> 0,
                                              profile |-> save.userId \in profiles])
               /\ repair' = NoRepair
          ELSE /\ UNCHANGED <<video_analyses, user_videos, repair>>
               /\ saveLog' = Append(saveLog, [type |-> "call", attempt |-> save.attempt,
                                              ok |-> FALSE,
                                              retryable |-> IsRetryableError(err), ms |-> 0,
                                              profile |-> save.userId \in profiles])
               /\ IF ShouldWait(err, save.attempt, save.maxRetries)
                  THEN save' = [save EXCEPT !.pc = "wait",
                                   !.delay = RetryDelay(save.retryDelayMs, save.attempt)]
                  ELSE save' = [save EXCEPT !.attempt = save.attempt + 1]
    /\ UNCHANGED <<profiles, video_generations, link, linkedPairs, req>>

\* await new Promise(r => setTimeout(r, delay)); continue
SaveWait ==
    /\ save.pc = "wait"
    /\ saveLog' = Append(saveLog, [type |-> "wait", attempt |-> save.attempt,
                                   ok |-> FALSE, retryable |-> FALSE, ms |-> save.delay,
                                   profile |-> save.userId \in profiles])
    /\ save' = [save EXCEPT !.pc = "loop", !.attempt = save.attempt + 1, !.delay = 0]
    /\ UNCHANGED <<store, link, linkedPairs, repair, req>>

\* The loop condition fails: the return after the loop.
SaveExhausted ==
    /\ save.pc = "loop"
    /\ ~(save.attempt < save.maxRetries)
    /\ save' = [save EXCEPT !.pc = "done", !.result = FailureResult(save.maxRetries)]
    /\ UNCHANGED <<store, saveLog, link, linkedPairs, repair, req>>

\* The signup flow commits the profiles row of a user.
CreateProfile(u) ==
    /\ u \notin profiles
    /\ profiles' = profiles \cup {u}
    /\ repair' = NoRepair
    /\ UNCHANGED <<video_analyses, user_videos, video_generations, save, saveLog,
                   link, linkedPairs, req>>

-----------------------------------------------------------------------------
(* ensureUserVideoLink *)

\* A round trip to the store ends in one of three ways: the store answers
\* ("ok"), the client returns an error object ("error"), or the call throws.
Outcomes == {"ok", "error", "throw"}

\* .single(): the row when exactly one row matches, no data otherwise.
Single(rows) == IF Cardinality(rows) = 1 THEN rows ELSE {}

\* Mutant of ExistingLink: the existence check finds nothing.
ExistingLinkIgnored(uv, u, v) == {}

\* const { data: existingLink } = await ... .eq('user_id', userId)
\*     .eq('video_id', video.id).single()
ExistingLink(uv, u, v) == Single(LinkRows(uv, u, v))

NoLinkResult == [linked |-> FALSE, videoId |-> NULL, error |-> <<>>]

\* Mutant of NotFoundResult: the error left out.
NotFoundResultNoError == [linked |-> FALSE, videoId |-> NULL, error |-> <<>>]

\* return { linked: false, videoId: null, error: 'Video not found' }
NotFoundResult ==
    [linked |-> FALSE, videoId |-> NULL, error |-> <<"Video", "not", "found">>]

\* Mutant of ExistingLinkResult: an existing link reported as not linked.
ExistingLinkResultNotLinked(v) == [linked |-> FALSE, videoId |-> v, error |-> <<>>]

\* return { linked: true, videoId: video.id, error: null }   (link exists)
ExistingLinkResult(v) == [linked |-> TRUE, videoId |-> v, error |-> <<>>]

\* Mutant of InsertErrorResult: a fixed message in place of the store's.
InsertErrorResultGeneric(v, message) ==
    [linked |-> FALSE, videoId |-> v, error |-> <<"Failed", "to", "create", "link">>]

\* return { linked: false, videoId: video.id, error: insertError.message }
InsertErrorResult(v, message) == [linked |-> FALSE, videoId |-> v, error |-> message]

\* return { linked: true, videoId: video.id, error: null }   (link written)
CreatedResult(v) == [linked |-> TRUE, videoId |-> v, error |-> <<>>]

\* catch (err): return { linked: false, videoId: null, error: errorMessage }
CaughtResult(message) == [linked |-> FALSE, videoId |-> NULL, error |-> message]

IdleLink ==
    [pc |-> "idle", userId |-> NULL, youtubeId |-> "yA", video |-> NULL,
     lookup |-> "none", check |-> "none", upsert |-> "none",
     uvReads |-> 0, uvWrites |-> 0, created |-> FALSE,
     afterLinked |-> FALSE, result |-> NoLinkResult]

\* Whether a round trip of the invocation failed for a reason of its own (an
\* error object or an exception that the store's contents do not explain).
Faulted(l) ==
    l.lookup \in {"error", "threw"} \/ l.check \in {"error", "threw"}
        \/ l.upsert \in {"error", "threw"}

\* The call: ensureUserVideoLink(supabase, userId, youtubeId).
StartedLink(u, y) ==
    [IdleLink EXCEPT !.pc = "lookup", !.userId = u, !.youtubeId = y,
                     !.afterLinked = (<<u, y>> \in linkedPairs)]

LinkStart(c, u, y) ==
    /\ link[c].pc = "idle"
    /\ link' = [link EXCEPT ![c] = StartedLink(u, y)]
    /\ UNCHANGED <<store, save, saveLog, linkedPairs, repair, req>>

\* from('video_analyses').select('id').eq('youtube_id', youtubeId).single()
LinkLookup(c, o) ==
    LET l == link[c]
        rows == IF o = "ok" THEN Single(VideoRows(video_analyses, l.youtubeId)) ELSE {}
    IN /\ l.pc = "lookup"
       /\ IF o = "throw"
          THEN link' = [link EXCEPT ![c] = [l EXCEPT !.pc = "done", !.lookup = "threw",
                            !.result = CaughtResult(NetworkError)]]
          ELSE IF rows = {}
          THEN link' = [link EXCEPT ![c] = [l EXCEPT !.pc = "done",
                            !.lookup = IF o = "error" THEN "error" ELSE "notfound",
                            !.result = NotFoundResult]]
          ELSE link' = [link EXCEPT ![c] = [l EXCEPT !.pc = "check", !.lookup = "found",
                            !.video = (CHOOSE r \in rows : TRUE).id]]
       /\ UNCHANGED <<store, save, saveLog, linkedPairs, repair, req>>

\* from('user_videos').select('id').eq('user_id', userId).eq('video_id', video.id).single()
LinkCheck(c, o) ==
    LET l == link[c]
        existingLink == IF o = "ok" THEN ExistingLink(user_videos, l.userId, l.video)
                        ELSE {}
        read == [l EXCEPT !.uvReads = l.uvReads + 1]
    IN /\ l.pc = "check"
       /\ IF o = "throw"
          THEN /\ link' = [link EXCEPT ![c] = [read EXCEPT !.pc = "done", !.check = "threw",
                              !.result = CaughtResult(NetworkError)]]
               /\ UNCHANGED linkedPairs
          ELSE IF existingLink # {}
          THEN /\ link' = [link EXCEPT ![c] = [read EXCEPT !.pc = "done", !.check = "exists",
                              !.result = ExistingLinkResult(l.video)]]
               /\ linkedPairs' = IF ExistingLinkResult(l.video).linked
                                 THEN linkedPairs \cup {<<l.userId, l.youtubeId>>}
                                 ELSE linkedPairs
          ELSE /\ link' = [link EXCEPT ![c] = [read EXCEPT !.pc = "upsert",
                              !.check = IF o = "error" THEN "error" ELSE "absent"]]
               /\ UNCHANGED linkedPairs
       /\ UNCHANGED <<store, save, saveLog, repair, req>>

\* from('user_videos').upsert({user_id, video_id, accessed_at}, {onConflict})
LinkUpsert(c, o, t) ==
    LET l == link[c]
        wrote == [l EXCEPT !.uvWrites = l.uvWrites + 1]
    IN /\ l.pc = "upsert"
       /\ IF o = "throw"
          THEN /\ link' = [link EXCEPT ![c] = [wrote EXCEPT !.pc = "done", !.upsert = "threw",
                              !.result = CaughtResult(NetworkError)]]
               /\ UNCHANGED <<user_videos, linkedPairs, repair>>
          ELSE IF o = "error" \/ ~FkHolds(profiles, l.userId)
          THEN /\ link' = [link EXCEPT ![c] = [wrote EXCEPT !.pc = "done",
                              !.upsert = IF o = "error" THEN "error" ELSE "fk",
                              !.result = InsertErrorResult(l.video,
                                  IF o = "error" THEN NetworkError ELSE FkViolation)]]
               /\ UNCHANGED <<user_videos, linkedPairs, repair>>
          ELSE /\ user_videos' = UpsertLink(user_videos, l.userId, l.video, t)
               /\ link' = [link EXCEPT ![c] = [wrote EXCEPT !.pc = "done", !.upsert = "ok",
                              !.created = (LinkRows(user_videos, l.userId, l.video) = {}),
                              !.result = CreatedResult(l.video)]]
               /\ linkedPairs' = IF CreatedResult(l.video).linked
                                 THEN linkedPairs \cup {<<l.userId, l.youtubeId>>}
                                 ELSE linkedPairs
               /\ repair' = NoRepair
       /\ UNCHANGED <<profiles, video_analyses, video_generations, save, saveLog, req>>

-----------------------------------------------------------------------------
(* The store's other writers. *)

\* A primary save whose remote call succeeds (insert_video_analysis_server).
PrimarySave(u, y, t) ==
    /\ RpcError(profiles, u) = <<>>
    /\ video_analyses' = RpcVideoAnalyses(video_analyses, y)
    /\ user_videos' = RpcUserVideos(user_videos, u, y, t)
    /\ <<video_analyses', user_videos'>> # <<video_analyses, user_videos>>
    /\ repair' = NoRepair
    /\ UNCHANGED <<profiles, video_generations, save, saveLog, link, linkedPairs, req>>

\* Credit consumption records a generation event, with or without a user.
RecordGeneration(u, y, t) ==
    /\ Cardinality(video_generations) < MaxGenerations
    /\ [user_id |-> u, youtube_id |-> y, created_at |-> t] \notin video_generations
    /\ video_generations' =
           video_generations \cup {[user_id |-> u, youtube_id |-> y, created_at |-> t]}
    /\ repair' = NoRepair
    /\ UNCHANGED <<profiles, video_analyses, user_videos, save, saveLog, link, linkedPairs, req>>

-----------------------------------------------------------------------------
(* The bulk repair statement. *)

\* The orders in which a set of rows can be processed.
Orders(S) ==
    {o \in [1..Cardinality(S) -> S] : \A i, j \in 1..Cardinality(S) : o[i] = o[j] => i = j}

\* Mutant of RepairSelect: the statement without its JOIN on profiles.
RepairSelectNoProfileJoin(vg, va, p, uv) ==
    {[user_id |-> ga[1].user_id, video_id |-> ga[2].id, accessed_at |-> ga[1].created_at] :
        ga \in {x \in vg \X va :
                   /\ x[2].youtube_id = x[1].youtube_id
                   /\ ~(\E r \in uv : r.user_id = x[1].user_id /\ r.video_id = x[2].id)
                   /\ x[1].user_id # NULL
                   /\ x[2].id # NULL}}

\* SELECT DISTINCT vg.user_id, va.id, vg.created_at FROM video_generations vg
\* JOIN video_analyses va ... JOIN profiles p ... LEFT JOIN user_videos uv ...
\* WHERE vg.user_id IS NOT NULL AND va.id IS NOT NULL AND uv.id IS NULL
RepairSelect(vg, va, p, uv) ==
    {[user_id |-> ga[1].user_id, video_id |-> ga[2].id, accessed_at |-> ga[1].created_at] :
        ga \in {x \in vg \X va :
                   /\ x[2].youtube_id = x[1].youtube_id
                   /\ x[1].user_id \in p
                   /\ ~(\E r \in uv : r.user_id = x[1].user_id /\ r.video_id = x[2].id)
                   /\ x[1].user_id # NULL
                   /\ x[2].id # NULL}}

\* INSERT ... ON CONFLICT (user_id, video_id) DO NOTHING, row by row: a row whose
\* pair is in the table, or was inserted earlier by the statement, is skipped.
RECURSIVE InsertOnConflictDoNothing(_, _)
InsertOnConflictDoNothing(uv, rows) ==
    IF rows = <<>> THEN uv
    ELSE LET r == Head(rows)
         IN InsertOnConflictDoNothing(
                IF \E x \in uv : x.user_id = r.user_id /\ x.video_id = r.video_id
                THEN uv
                ELSE InsertLink(uv, r.user_id, r.video_id, r.accessed_at),
                Tail(rows))

\* Mutant of RepairStatement: the statement without its LEFT JOIN ... IS NULL
\* filter and without its ON CONFLICT clause.
RECURSIVE InsertAll(_, _)
InsertAll(uv, rows) ==
    IF rows = <<>> THEN uv
    ELSE InsertAll(InsertLink(uv, Head(rows).user_id, Head(rows).video_id,
                              Head(rows).accessed_at), Tail(rows))

RepairStatementUnguarded(vg, va, p, uv) ==
    {InsertAll(uv, o) : o \in Orders(RepairSelect(vg, va, p, {}))}

\* The tables the statement can leave user_videos as.
RepairStatement(vg, va, p, uv) ==
    {InsertOnConflictDoNothing(uv, o) : o \in Orders(RepairSelect(vg, va, p, uv))}

BulkRepair ==
    /\ \E after \in RepairStatement(video_generations, video_analyses, profiles, user_videos) :
           /\ user_videos' = after
           /\ repair' = [streak |-> IF repair.streak < 2 THEN repair.streak + 1 ELSE 2,
                         inserted |-> Cardinality(after) - Cardinality(user_videos),
                         total |-> repair.total + Cardinality(after)
                                       - Cardinality(user_videos)]
    /\ UNCHANGED <<profiles, video_analyses, video_generations, save, saveLog,
                   link, linkedPairs, req>>

-----------------------------------------------------------------------------
(* POST /api/verify-video-link: handler *)

\* A JSON value: its typeof and its text.
JsUndefined == [t |-> "undefined", s |-> ""]
JsNull == [t |-> "object", s |-> "null"]
JsString(x) == [t |-> "string", s |-> x]
JsNumber(x) == [t |-> "number", s |-> x]

\* !v
Falsy(v) == v \in {JsUndefined, JsNull, JsString(""), JsNumber("0")}

\* typeof v
TypeOf(v) == v.t

\* Mutant of InvalidVideoId: the typeof check alone.
InvalidVideoIdTypeOnly(v) == TypeOf(v) # "string"

\* if (!videoId || typeof videoId !== 'string')
InvalidVideoId(v) == Falsy(v) \/ TypeOf(v) # "string"

\* The values the body's videoId can have.
BodyValues ==
    {JsUndefined, JsNull, JsString(""), JsString("yA"), JsString("yB"), JsNumber("42")}

\* A request body: text that is no JSON, the JSON null, or an object, which can
\* carry a userId of its own besides the videoId.
Bodies ==
    {[kind |-> k, videoId |-> JsUndefined, userId |-> "u1"] : k \in {"invalid", "null"}}
        \cup {[kind |-> "object", videoId |-> v, userId |-> u] :
                 v \in BodyValues, u \in Users}

NoResponse == [error |-> <<>>, linked |-> FALSE, videoId |-> NULL]

\* { error: 'videoId is required' }, status 400
BadRequest == [error |-> <<"videoId", "is", "required">>, linked |-> FALSE, videoId |-> NULL]

\* { error: 'Authentication required' }, status 401
Unauthorized ==
    [error |-> <<"Authentication", "required">>, linked |-> FALSE, videoId |-> NULL]

\* { error: 'Failed to verify video link' }, status 500
GenericFailure ==
    [error |-> <<"Failed", "to", "verify", "video", "link">>, linked |-> FALSE,
     videoId |-> NULL]

\* if (result.error && !result.linked)
LinkFailed(result) == result.error # <<>> /\ ~result.linked

\* The status and the body the handler answers a result of the primitive with.
ResultStatus(result) == IF LinkFailed(result) THEN 500 ELSE 200

ResultResponse(result) ==
    IF LinkFailed(result)
    THEN [error |-> result.error, linked |-> FALSE, videoId |-> NULL]
    ELSE [error |-> <<>>, linked |-> result.linked, videoId |-> result.videoId]

IdleRequest ==
    [pc |-> "idle", body |-> [kind |-> "invalid", videoId |-> JsUndefined, userId |-> "u1"],
     session |-> NULL, auth |-> "none", user |-> NULL, threw |-> FALSE,
     status |-> 0, resp |-> NoResponse]

Answer(r, status, resp) == [r EXCEPT !.pc = "done", !.status = status, !.resp = resp]

\* Mutant of OnException: the exception leaves the handler.
OnExceptionUncaught(r) == [r EXCEPT !.pc = "escaped", !.threw = TRUE]

\* catch (error): the generic 500.
OnException(r) == Answer([r EXCEPT !.threw = TRUE], 500, GenericFailure)

\* A request arrives: its body, and the user its session authenticates (if any).
HandlerReceive(c, body, session) ==
    /\ req[c].pc = "idle"
    /\ link[c].pc = "idle"
    /\ req' = [req EXCEPT ![c] = [IdleRequest EXCEPT !.pc = "parse", !.body = body,
                                                    !.session = session]]
    /\ UNCHANGED <<store, save, saveLog, link, linkedPairs, repair>>

\* const { videoId } = await req.json(), and the check of videoId.
HandlerParse(c) ==
    LET r == req[c]
    IN /\ r.pc = "parse"
       /\ req' = [req EXCEPT ![c] =
              IF r.body.kind # "object" THEN OnException(r)
              ELSE IF InvalidVideoId(r.body.videoId) THEN Answer(r, 400, BadRequest)
              ELSE [r EXCEPT !.pc = "client"]]
       /\ UNCHANGED <<store, save, saveLog, link, linkedPairs, repair>>

\* const supabase = await createClient()
HandlerCreateClient(c, o) ==
    LET r == req[c]
    IN /\ r.pc = "client"
       /\ req' = [req EXCEPT ![c] =
              IF o = "throw" THEN OnException(r) ELSE [r EXCEPT !.pc = "auth"]]
       /\ UNCHANGED <<store, save, saveLog, link, linkedPairs, repair>>

\* Mutant of Unauthenticated: the check of user left out.
UnauthenticatedNever(user) == FALSE

\* if (!user)
Unauthenticated(user) == user = NULL

\* Mutant of PrimitiveCall: the user id taken from the request body.
PrimitiveCallBodyUser(r, user) == StartedLink(r.body.userId, r.body.videoId.s)

\* const result = await ensureUserVideoLink(supabase, user.id, videoId)
PrimitiveCall(r, user) == StartedLink(user, r.body.videoId.s)

\* const { data: { user } } = await supabase.auth.getUser(), the check of user,
\* and the call of ensureUserVideoLink(supabase, user.id, videoId).
HandlerGetUser(c, o) ==
    LET r == req[c]
        user == IF o = "ok" THEN r.session ELSE NULL
    IN /\ r.pc = "auth"
       /\ IF o = "throw"
          THEN /\ req' = [req EXCEPT ![c] = OnException(r)]
               /\ UNCHANGED link
          ELSE IF Unauthenticated(user)
          THEN /\ req' = [req EXCEPT ![c] = Answer([r EXCEPT !.auth = o], 401, Unauthorized)]
               /\ UNCHANGED link
          ELSE /\ req' = [req EXCEPT ![c] = [r EXCEPT !.pc = "link", !.auth = o,
                                                      !.user = user]]
               /\ link' = [link EXCEPT ![c] = PrimitiveCall(r, user)]
       /\ UNCHANGED <<store, save, saveLog, linkedPairs, repair>>

\* ensureUserVideoLink has returned: the 500 of a failed link, or the 200.
HandlerRespond(c) ==
    LET r == req[c]
    IN /\ r.pc = "link"
       /\ link[c].pc = "done"
       /\ req' = [req EXCEPT ![c] =
              Answer(r, ResultStatus(link[c].result), ResultResponse(link[c].result))]
       /\ UNCHANGED <<store, save, saveLog, link, linkedPairs, repair>>

-----------------------------------------------------------------------------

Init ==
    /\ profiles = {}
    /\ video_analyses = {}
    /\ user_videos = {}
    /\ video_generations = {}
    /\ save = IdleSave
    /\ saveLog = <<>>
    /\ link = [c \in Callers |-> IdleLink]
    /\ linkedPairs = {}
    /\ repair = NoRepair
    /\ req = [c \in Callers |-> IdleRequest]

RetryOptions == {NoOption} \cup {Option(n) : n \in 0..MaxRetriesBound}
DelayOptions == {NoOption, Option(100)}

NextSave ==
    \/ \E u \in Users \cup {NULL}, y \in YoutubeIds, r \in RetryOptions, d \in DelayOptions :
           SaveStart(u, y, r, d)
    \/ \E f \in Faults \cup {<<>>}, t \in Times : SaveAttempt(f, t)
    \/ SaveWait
    \/ SaveExhausted
    \/ \E u \in Users : CreateProfile(u)

SpecSave == Init /\ [][NextSave]_vars

\* Concurrent ensureUserVideoLink invocations beside the signup flow and the
\* primary save path; every round trip can answer, return an error or throw.
\* Only "yA" is ever analysed: "yB" is the video that does not exist.
NextLink ==
    \/ \E u \in Users : CreateProfile(u)
    \/ \E u \in Users \cup {NULL}, t \in Times : PrimarySave(u, "yA", t)
    \/ \E c \in Callers, u \in Users, y \in YoutubeIds : LinkStart(c, u, y)
    \/ \E c \in Callers, o \in Outcomes : LinkLookup(c, o)
    \/ \E c \in Callers, o \in Outcomes : LinkCheck(c, o)
    \/ \E c \in Callers, o \in Outcomes, t \in Times : LinkUpsert(c, o, t)

Spec == Init /\ [][NextLink]_vars

\* A request to the endpoint, beside the signup flow and the primary save path;
\* the primitive runs only as the handler calls it.
NextEndpoint ==
    \/ \E u \in Users : CreateProfile(u)
    \/ \E u \in Users \cup {NULL}, t \in Times : PrimarySave(u, "yA", t)
    \/ \E b \in Bodies, u \in Users \cup {NULL} : HandlerReceive("c1", b, u)
    \/ HandlerParse("c1")
    \/ \E o \in {"ok", "throw"} : HandlerCreateClient("c1", o)
    \/ \E o \in Outcomes : HandlerGetUser("c1", o)
    \/ \E o \in Outcomes : LinkLookup("c1", o)
    \/ \E o \in Outcomes : LinkCheck("c1", o)
    \/ \E o \in Outcomes, t \in Times : LinkUpsert("c1", o, t)
    \/ HandlerRespond("c1")

SpecEndpoint == Init /\ [][NextEndpoint]_vars

\* Every writer of user_videos at once: primary saves, two ensureUserVideoLink
\* invocations and runs of the bulk repair statement.  The live writers stamp
\* their rows with the current time, MaxTime; generation events carry any time.
NextStore ==
    \/ \E u \in Users : CreateProfile(u)
    \/ \E u \in Users \cup {NULL} : PrimarySave(u, "yA", MaxTime)
    \/ \E u \in Users, t \in Times : RecordGeneration(u, "yA", t)
    \/ \E c \in Callers, u \in Users : LinkStart(c, u, "yA")
    \/ \E c \in Callers : LinkLookup(c, "ok")
    \/ \E c \in Callers, o \in {"ok", "error"} : LinkCheck(c, o)
    \/ \E c \in Callers : LinkUpsert(c, "ok", MaxTime)
    \/ BulkRepair

SpecStore == Init /\ [][NextStore]_vars

\* The bulk repair statement over generation events of every kind: with and
\* without a user, of the analysed video "yA" and of "yB", which has no analysis.
NextRepair ==
    \/ \E u \in Users : CreateProfile(u)
    \/ \E u \in Users \cup {NULL}, t \in Times : PrimarySave(u, "yA", t)
    \/ \E u \in Users \cup {NULL}, y \in YoutubeIds, t \in Times : RecordGeneration(u, y, t)
    \/ BulkRepair

SpecRepair == Init /\ [][NextRepair]_vars

-----------------------------------------------------------------------------
(* Properties of saveVideoAnalysisWithRetry, over the log of one invocation. *)

RECURSIVE SumMs(_)
SumMs(log) == IF log = <<>> THEN 0 ELSE Head(log).ms + SumMs(Tail(log))

RECURSIVE SumTo(_)
SumTo(n) == IF n <= 0 THEN 0 ELSE n + SumTo(n - 1)

IsCall(e) == e.type = "call"
IsWait(e) == e.type = "wait"
SaveCalls == SelectSeq(saveLog, IsCall)
SaveWaits == SelectSeq(saveLog, IsWait)
SaveDone == save.pc = "done"

\* C1: when the remote call succeeds on the zero-based attempt k < maxRetries,
\* all earlier calls having failed, the invocation returns success = true,
\* error = null, videoId = the id the remote call returned (the id of the
\* analysis row of the youtube id) and retriedCount = k, k being the number of
\* failed calls before it.
C1_SuccessReportsAttempt ==
    \A i \in 1..Len(SaveCalls) :
        SaveCalls[i].ok =>
            /\ i = Len(SaveCalls)
            /\ \A j \in 1..(i - 1) : ~SaveCalls[j].ok
            /\ i - 1 < save.maxRetries
            /\ SaveDone
            /\ save.result.success
            /\ save.result.error = <<>>
            /\ save.result.retriedCount = i - 1
            /\ \E r \in video_analyses :
                   r.youtube_id = save.youtubeId /\ r.id = save.result.videoId

\* C1 witness: a success on the third call, after a retryable and a
\* non-retryable failure.
C1_Witness ==
    /\ SaveDone
    /\ Len(SaveCalls) = 3
    /\ SaveCalls[1].retryable /\ ~SaveCalls[1].ok
    /\ ~SaveCalls[2].retryable /\ ~SaveCalls[2].ok
    /\ SaveCalls[3].ok
    /\ save.result.retriedCount = 2

\* C2 (the claim as stated): a call that fails with a non-retryable error is
\* the last event of the invocation: no remote call and no wait follows it,
\* and the invocation returns failure.
C2_NonRetryableStops ==
    \A i \in 1..Len(saveLog) :
        (IsCall(saveLog[i]) /\ ~saveLog[i].ok /\ ~saveLog[i].retryable) =>
            /\ i = Len(saveLog)
            /\ SaveDone => ~save.result.success

\* C3: when every attempt fails with a retryable error, exactly maxRetries
\* remote calls are made, the result is success = false with
\* retriedCount = maxRetries, and the waits before the return add up to at least
\* retryDelayMs * (1 + 2 + ... + (maxRetries - 1)).
C3_AllRetryableExhausts ==
    (SaveDone /\ \A i \in 1..Len(SaveCalls) : ~SaveCalls[i].ok /\ SaveCalls[i].retryable) =>
        /\ Len(SaveCalls) = save.maxRetries
        /\ ~save.result.success
        /\ save.result.retriedCount = save.maxRetries
        /\ SumMs(SaveWaits) >= save.retryDelayMs * SumTo(save.maxRetries - 1)

\* C3 witness: three retryable failures under the default options.
C3_Witness ==
    /\ SaveDone
    /\ save.maxRetries = DefaultMaxRetries
    /\ save.retryDelayMs = DefaultRetryDelayMs
    /\ Len(SaveCalls) = 3
    /\ \A i \in 1..3 : ~SaveCalls[i].ok /\ SaveCalls[i].retryable
    /\ SumMs(SaveWaits) = 1500

\* C12: every failure result has success = false, videoId = null and
\* retriedCount = maxRetries, whatever the number of remote calls made and
\* whether the last error was retryable or not; retriedCount is below maxRetries
\* only in success results.
C12_FailureReportsMaxRetries ==
    SaveDone =>
        /\ ~save.result.success =>
               /\ save.result.videoId = NULL
               /\ save.result.retriedCount = save.maxRetries
               /\ save.result.error = <<"Max", "retries", "exceeded">>
        /\ save.result.retriedCount < save.maxRetries => save.result.success

\* C12 witness: a failure whose calls failed with a non-retryable and with a
\* retryable error, reported with retriedCount = 3.
C12_Witness ==
    /\ SaveDone /\ ~save.result.success
    /\ Len(SaveCalls) = 3
    /\ ~SaveCalls[1].retryable /\ SaveCalls[2].retryable /\ ~SaveCalls[3].retryable
    /\ save.result.retriedCount = 3

\* The zero-based index of the remote call that is event j of the log.
CallIndex(j) == Len(SelectSeq(SubSeq(saveLog, 1, j), IsCall)) - 1

WaitedMs == SumMs(SaveWaits) + (IF save.pc = "wait" THEN save.delay ELSE 0)

RECURSIVE FirstWithProfile(_, _)
FirstWithProfile(calls, i) ==
    IF i > Len(calls) THEN 0
    ELSE IF calls[i].profile THEN i
    ELSE FirstWithProfile(calls, i + 1)

\* The save of a user fails only while the user's profiles row is absent, and
\* then with a retryable error.
FailsOnlyWithoutProfile ==
    /\ save.userId # NULL
    /\ \A i \in 1..Len(SaveCalls) :
           ~SaveCalls[i].ok => (SaveCalls[i].retryable /\ ~SaveCalls[i].profile)

\* C18: when the save fails only while the user's profiles row is absent, the
\* invocation returns success = true with retriedCount = the index of the first
\* attempt made after the profile committed, if there is one; if the profile
\* commits after the last attempt only (or never), it returns failure after
\* maxRetries calls and no link has been created.
C18_ProfileRace ==
    (SaveDone /\ FailsOnlyWithoutProfile) =>
        IF FirstWithProfile(SaveCalls, 1) > 0
        THEN /\ save.result.success
             /\ save.result.retriedCount = FirstWithProfile(SaveCalls, 1) - 1
             /\ save.result.retriedCount < save.maxRetries
             /\ LinkRows(user_videos, save.userId, save.result.videoId) # {}
        ELSE /\ ~save.result.success
             /\ Len(SaveCalls) = save.maxRetries
             /\ user_videos = {}

\* C18 witness: the profile committed between the second and the third attempt.
C18_Witness ==
    /\ SaveDone /\ FailsOnlyWithoutProfile
    /\ Len(SaveCalls) = 3
    /\ ~SaveCalls[2].profile /\ SaveCalls[3].profile
    /\ save.result.success /\ save.result.retriedCount = 2

-----------------------------------------------------------------------------
(* Properties of the store and of ensureUserVideoLink. *)

LinkDone(c) == link[c].pc = "done"
LinkPairRows(c) == LinkRows(user_videos, link[c].userId, InternalId(link[c].youtubeId))

\* C4: in every reachable state, whatever the interleaving of primary saves,
\* ensureUserVideoLink invocations and bulk repair runs, user_videos holds at
\* most one row per (user_id, video_id) pair.
C4_AtMostOneLinkPerPair ==
    \A r1, r2 \in user_videos :
        (r1.user_id = r2.user_id /\ r1.video_id = r2.video_id) => r1 = r2

\* C4 witness: two invocations for the same pair both saw no link in their
\* existence check, then both upserted, and one row exists.
C4_Witness ==
    /\ LinkDone("c1") /\ LinkDone("c2")
    /\ link["c1"].userId = link["c2"].userId
    /\ link["c1"].check = "absent" /\ link["c2"].check = "absent"
    /\ link["c1"].upsert = "ok" /\ link["c2"].upsert = "ok"
    /\ Cardinality(LinkPairRows("c1")) = 1

\* C5: an invocation made after an invocation for the same (user, video) has
\* returned linked = true, and whose round trips do not fail, returns
\* linked = true with no error and creates no row; and whenever an invocation
\* returns linked = true the store holds exactly one link row for its pair.
C5_LinkIdempotent ==
    \A c \in Callers :
        LinkDone(c) =>
            /\ (link[c].afterLinked /\ ~Faulted(link[c])) =>
                   /\ link[c].result.linked
                   /\ link[c].result.error = <<>>
                   /\ ~link[c].created
            /\ link[c].result.linked => Cardinality(LinkPairRows(c)) = 1

\* C5 witness: the first invocation created the row, the second, for the same
\* pair and started after the first returned, found it.
C5_Witness ==
    /\ LinkDone("c1") /\ LinkDone("c2")
    /\ link["c1"].created /\ link["c1"].result.linked
    /\ link["c2"].afterLinked /\ ~Faulted(link["c2"])
    /\ link["c2"].userId = link["c1"].userId
    /\ link["c2"].youtubeId = link["c1"].youtubeId
    /\ link["c2"].result.linked /\ ~link["c2"].created
    /\ Cardinality(LinkPairRows("c1")) = 1

\* C6 (the claim as stated): an invocation whose lookup found the video returns,
\* on every outcome, a result whose videoId is the video's internal id.
C6_VideoIdWheneverFound ==
    \A c \in Callers :
        (LinkDone(c) /\ link[c].lookup = "found") =>
            link[c].result.videoId = InternalId(link[c].youtubeId)

\* C7: an invocation whose lookup finds no video_analyses row, or whose lookup
\* returns an error, returns linked = false, videoId = null and the error
\* "Video not found", and has issued no read and no write on user_videos.
C7_VideoNotFound ==
    \A c \in Callers :
        (LinkDone(c) /\ link[c].lookup \in {"notfound", "error"}) =>
            /\ link[c].result = [linked |-> FALSE, videoId |-> NULL,
                                 error |-> <<"Video", "not", "found">>]
            /\ link[c].uvReads = 0
            /\ link[c].uvWrites = 0

\* C7 witness: one invocation for a video that was never analysed, one whose
\* lookup of an existing video returned an error.
C7_Witness ==
    /\ LinkDone("c1") /\ link["c1"].lookup = "notfound"
    /\ VideoRows(video_analyses, link["c1"].youtubeId) = {}
    /\ LinkDone("c2") /\ link["c2"].lookup = "error"
    /\ VideoRows(video_analyses, link["c2"].youtubeId) # {}

\* C13: when the link row of the pair exists at the existence check (and the
\* check's round trip does not fail), the invocation returns linked = true with
\* error = null and the video's id, has issued no write, and leaves user_videos,
\* accessed_at included, as it was.
C13_ExistingLinkUntouched ==
    [][\A c \in Callers :
          (link[c].pc = "check" /\ link'[c] # link[c]) =>
              /\ (/\ LinkRows(user_videos, link[c].userId, link[c].video) # {}
                  /\ link'[c].check \notin {"error", "threw"})
                     => link'[c].check = "exists"
              /\ link'[c].check = "exists" =>
                     /\ link'[c].pc = "done"
                     /\ link'[c].result =
                            [linked |-> TRUE, videoId |-> InternalId(link[c].youtubeId),
                             error |-> <<>>]
                     /\ link'[c].uvWrites = 0
                     /\ ~link'[c].created
                     /\ user_videos' = user_videos]_vars

\* C13 witness: an invocation returned on the existing-link path, the row
\* still stamped with the time of its creation.
C13_Witness ==
    /\ LinkDone("c1") /\ link["c1"].check = "exists"
    /\ link["c1"].result.linked /\ link["c1"].uvWrites = 0
    /\ \E r \in LinkPairRows("c1") : r.accessed_at = 1
    /\ LinkDone("c2") /\ link["c2"].created /\ link["c2"].userId = link["c1"].userId

\* C14: when the upsert fails (a foreign key violation because the user's
\* profile is absent, or another error of the store), the invocation returns
\* linked = false with the video's id and the store's message verbatim, and has
\* created no link row: user_videos is as it was, and after a foreign key
\* violation the pair has no row.
C14_UpsertFailureReported ==
    [][\A c \in Callers :
          (link[c].pc = "upsert" /\ link'[c].upsert \in {"fk", "error"}) =>
              /\ link'[c].pc = "done"
              /\ link'[c].result =
                     [linked |-> FALSE, videoId |-> InternalId(link[c].youtubeId),
                      error |-> IF link'[c].upsert = "fk" THEN FkViolation
                                ELSE NetworkError]
              /\ ~link'[c].created
              /\ user_videos' = user_videos
              /\ link'[c].upsert = "fk" =>
                     /\ link[c].userId \notin profiles
                     /\ LinkRows(user_videos', link[c].userId, link[c].video) = {}]_vars

\* C14 witness: an upsert refused for the foreign key on profiles.
C14_Witness ==
    /\ LinkDone("c1") /\ link["c1"].upsert = "fk"
    /\ link["c1"].userId \notin profiles
    /\ link["c1"].result.error = FkViolation
    /\ LinkPairRows("c1") = {}

\* C19: two invocations for the same (user, video) pair, the video and the
\* profile present and no round trip failing, both return linked = true with
\* error = null and the same video id under every interleaving of their steps,
\* and leave one link row.
C19_ConcurrentLinksAgree ==
    \A c \in Callers : \A d \in Callers \ {c} :
        (/\ LinkDone(c) /\ LinkDone(d)
         /\ link[c].userId = link[d].userId /\ link[c].youtubeId = link[d].youtubeId
         /\ ~Faulted(link[c]) /\ ~Faulted(link[d])
         /\ link[c].lookup = "found" /\ link[d].lookup = "found"
         /\ link[c].upsert # "fk" /\ link[d].upsert # "fk") =>
            /\ link[c].result.linked /\ link[d].result.linked
            /\ link[c].result.error = <<>> /\ link[d].result.error = <<>>
            /\ link[c].result.videoId = link[d].result.videoId
            /\ link[c].result.videoId = InternalId(link[c].youtubeId)
            /\ Cardinality(LinkPairRows(c)) = 1

\* C19 witness: both invocations saw no link and both wrote; the second write
\* met the row of the first.
C19_Witness ==
    /\ LinkDone("c1") /\ LinkDone("c2")
    /\ link["c1"].userId = link["c2"].userId
    /\ link["c1"].youtubeId = link["c2"].youtubeId
    /\ link["c1"].check = "absent" /\ link["c2"].check = "absent"
    /\ link["c1"].upsert = "ok" /\ link["c2"].upsert = "ok"
    /\ link["c1"].created /\ ~link["c2"].created
    /\ link["c1"].result.linked /\ link["c2"].result.linked

-----------------------------------------------------------------------------
(* Properties of the repair endpoint. *)

Request == req["c1"]
Primitive == link["c1"]
RequestDone == Request.pc = "done"

\* No authenticated user is resolved: the session carries none, or getUser
\* returned an error.
NoUserResolved == Request.session = NULL \/ Request.auth = "error"

\* The response the claim's rule gives a request whose handling threw nothing,
\* for a given reading of "the videoId is rejected".
StatusRule(rejected) ==
    IF rejected THEN Request.status = 400
    ELSE IF NoUserResolved THEN Request.status = 401
    ELSE IF Primitive.result.error # <<>> /\ ~Primitive.result.linked
    THEN Request.status = 500 /\ Request.resp.error = Primitive.result.error
    ELSE /\ Request.status = 200
         /\ Request.resp.linked = Primitive.result.linked
         /\ Request.resp.videoId = Primitive.result.videoId
         /\ (Primitive.check = "exists" \/ Primitive.upsert = "ok") => Request.resp.linked

C9_NeverThrowsPastBoundary ==
    /\ Request.pc \in {"idle", "parse", "client", "auth", "link", "done"}
    /\ Request.pc = "parse" => ENABLED HandlerParse("c1")
    /\ Request.pc = "client" => ENABLED HandlerCreateClient("c1", "ok")
    /\ Request.pc = "auth" => ENABLED HandlerGetUser("c1", "ok")
    /\ Request.pc = "link" =>
           \/ ENABLED LinkLookup("c1", "ok")
           \/ ENABLED LinkCheck("c1", "ok")
           \/ ENABLED LinkUpsert("c1", "ok", 1)
           \/ ENABLED HandlerRespond("c1")
    /\ RequestDone => Request.status \in {200, 400, 401, 500}
    /\ Request.threw =>
           /\ RequestDone
           /\ Request.status = 500
           /\ Request.resp.error = <<"Failed", "to", "verify", "video", "link">>
    /\ (RequestDone /\ Request.status # 0
            /\ "threw" \in {Primitive.lookup, Primitive.check, Primitive.upsert}) =>
           Request.status = 500

\* C9 witness: a well-formed request whose client creation or identity
\* resolution threw, answered with the generic 500.
C9_Witness ==
    /\ RequestDone /\ Request.threw
    /\ Request.body.kind = "object"
    /\ Request.body.videoId = JsString("yA")
    /\ Request.status = 500

-----------------------------------------------------------------------------
(* Properties of the bulk repair statement. *)

\* C10: a run of the bulk repair statement that directly follows another run
\* (no other write to the store in between) inserts no user_videos row.
C10_RepairIdempotent == repair.streak >= 2 => repair.inserted = 0

\* C10 witness: two runs in succession, the first having inserted the one link
\* of a user that has two generation events of the same video with different
\* timestamps.
C10_Witness ==
    /\ repair.streak = 2
    /\ repair.total = 1
    /\ Cardinality(user_videos) = 1
    /\ \E g1, g2 \in video_generations :
           /\ g1.user_id = g2.user_id /\ g1.youtube_id = g2.youtube_id
           /\ g1.created_at # g2.created_at
           /\ \E r \in user_videos :
                  r.user_id = g1.user_id /\ r.video_id = InternalId(g1.youtube_id)

\* C11: every user_videos row a run of the bulk repair statement inserts has a
\* user_id with a profiles row and a video_id that is the id of a
\* video_analyses row, and comes from a generation event of that user and that
\* video: an event whose user has no profile, whose user is null or whose
\* youtube_id has no analysis produces no link.
C11_RepairSkipsOrphans ==
    [][repair' # NoRepair =>
          \A r \in user_videos' \ user_videos :
              /\ r.user_id \in profiles
              /\ \E a \in video_analyses : a.id = r.video_id
              /\ \E g \in video_generations, a \in video_analyses :
                     /\ g.user_id = r.user_id
                     /\ a.youtube_id = g.youtube_id /\ a.id = r.video_id
                     /\ g.created_at = r.accessed_at]_vars

\* C11 witness: a run inserted the link of one generation event and none for an
\* event whose user has no profiles row (a null user or a user without profile).
C11_Witness ==
    /\ repair.streak = 1
    /\ repair.inserted = 1
    /\ \E g \in video_generations :
           /\ g.user_id \notin profiles
           /\ VideoRows(video_analyses, g.youtube_id) # {}
           /\ LinkRows(user_videos, g.user_id, InternalId(g.youtube_id)) = {}

\* C17: every user_videos row created or updated through the endpoint carries
\* the identity that authentication resolved from the session; the primitive is
\* called with that identity, whatever user id the request body names.
C17_LinkForAuthenticatedCaller ==
    [][/\ (link["c1"].pc = "idle" /\ link'["c1"].pc # "idle") =>
              /\ Request.session # NULL
              /\ link'["c1"].userId = Request.session
              /\ req'["c1"].user = Request.session /\ req'["c1"].auth = "ok"
       /\ link'["c1"].uvWrites # link["c1"].uvWrites =>
              \A r \in user_videos' \ user_videos :
                  /\ r.user_id = Request.session
                  /\ r.video_id = InternalId(Request.body.videoId.s)]_vars

\* C17 witness: a request whose body names another user created the link of
\* the session's user, and none for the user of the body.
C17_Witness ==
    /\ RequestDone /\ Request.status = 200
    /\ Primitive.created
    /\ Request.body.userId # Request.session
    /\ LinkRows(user_videos, Request.session, Primitive.video) # {}
    /\ LinkRows(user_videos, Request.body.userId, Primitive.video) = {}

\* The primitive has been invoked only for a request that passed validation
\* and then authentication.
InvokedAfterChecks ==
    /\ Request.status = 400 => Request.auth = "none"
    /\ (RequestDone /\ Request.status \in {400, 401}) => Primitive = IdleLink
    /\ (Request.session = NULL \/ Request.auth \in {"none", "error"}) =>
           Primitive = IdleLink
    /\ Primitive # IdleLink =>
           /\ Request.body.kind = "object"
           /\ Request.body.videoId.t = "string" /\ Request.body.videoId.s # ""
           /\ Request.user = Request.session

\* C20: validation precedes authentication and both precede store access: a
\* request answered 400 (whatever its session) has not reached authentication,
\* a request answered 400 or 401 never invokes the primitive, and the step that
\* answers it neither reads nor changes video_analyses and user_videos.
C20_RejectedBeforeStoreAccess ==
    [][/\ InvokedAfterChecks'
       /\ (req'["c1"] # req["c1"] /\ req'["c1"].status \in {400, 401}) =>
              /\ link["c1"] = IdleLink /\ link' = link
              /\ UNCHANGED store
              /\ req'["c1"].status = 400 => Request.pc = "parse"
              /\ req'["c1"].status = 401 => Request.pc = "auth"]_vars

\* C20 witness: a request for an analysed video from a caller with no session,
\* answered 401 with the primitive never invoked.
C20_Witness ==
    /\ RequestDone /\ Request.status = 401
    /\ Request.session = NULL
    /\ Request.body.videoId = JsString("yA")
    /\ VideoRows(video_analyses, "yA") # {}
    /\ Primitive = IdleLink

=============================================================================
